---- MODULE Spec2Model ----
(***************************************************************************)
(* A model of lsst.ip.isr.calibType: the generic calibration IsrCalib and  *)
(* its concrete variant IsrProvenance (python/lsst/ip/isr/calibType.py).   *)
(*                                                                         *)
(* Python values are encoded as strings: None is NoneV, an int n is the    *)
(* string "#n", a str is itself.  Identifiers (dataIds) are functions from *)
(* key strings to naturals.  A list object that the code shares by         *)
(* reference (dataIdList) lives in the heap `lists` and is named by its    *)
(* address.                                                                *)
(***************************************************************************)
EXTENDS Integers, Sequences, FiniteSets, Bags, TLC

VARIABLES
    c,          \* the calibration under test (NoObj before construction)
    d,          \* a second calibration: the result of a read-back, or the right operand of ==
    lists,      \* heap of list objects: address -> sequence of identifiers
    calls,      \* history: the bag of identifier lists handed to c.fromDataIds so far
    last,       \* name of the last operation performed
    err,        \* exception raised by the last operation ("none" when it returned)
    res,        \* value returned by the last operation that returns a plain value
    arg,        \* the arguments of the call under study (the dictionary of calibInfoFromDict)
    caller,     \* the mapping the caller handed to setMetadata, as the caller sees it
    filename,   \* the filename argument of the next read/write call
    format,     \* the format argument of writeText
    tableList,  \* what the variant's toTable() returns (tables named by number)
    fs,         \* file system: path -> content
    hooks       \* history: conversion hooks (toDict, toTable, fromDict, fromTable) invoked

vars == <<c, d, lists, calls, last, err, res, arg, caller, filename, format, tableList, fs, hooks>>
provVars == <<c, d, lists, calls>>
infoVars == <<arg>>
metaVars == <<caller>>
ioVars == <<filename, format, tableList, fs, hooks>>

---------------------------------------------------------------------------
(* Bounds of the model. *)

MaxIds == 2       \* longest dataIdList explored
MaxCalls == 2     \* most fromDataIds calls explored
MaxNameLen == 3   \* longest file name explored, in pieces
MaxTables == 2    \* most tables a variant's toTable returns
MaxWrites == 2    \* most write calls explored on one file system

---------------------------------------------------------------------------
(* Python values. *)

NoneV == "<None>"

\* bool(v) is False for None, the empty string and the integer 0.
Falsy(v) == v \in {NoneV, "", "#0"}

EmptyMap == [k \in {} |-> NoneV]

\* dict.update / PropertyList.update: entries of kw are added, overwriting.
MapUpdate(m, kw) ==
    [k \in DOMAIN m \cup DOMAIN kw |-> IF k \in DOMAIN kw THEN kw[k] ELSE m[k]]

\* m[k] = v on a mapping.
MapSet(m, k, v) == MapUpdate(m, [x \in {k} |-> v])

\* dict.get(key, default)
MapGet(m, k, default) == IF k \in DOMAIN m THEN m[k] ELSE default

Range(s) == {s[i] : i \in DOMAIN s}

---------------------------------------------------------------------------
(* Classes.  SubProvenance stands for any subclass of IsrProvenance that   *)
(* adds nothing; "object" for a value that is not a calibration.           *)

Classes == {"IsrCalib", "IsrProvenance", "SubProvenance"}

Parent(cls) ==
    CASE cls = "SubProvenance" -> "IsrProvenance"
      [] cls = "IsrProvenance" -> "IsrCalib"
      [] OTHER -> "object"

RECURSIVE IsSubclass(_, _)
IsSubclass(cls, base) ==
    IF cls = base THEN TRUE
    ELSE IF cls = "object" THEN FALSE
    ELSE IsSubclass(Parent(cls), base)

OBSTYPE(cls) == IF IsSubclass(cls, "IsrProvenance") THEN "IsrProvenance" ELSE "generic"
SCHEMA(cls) == "NO SCHEMA"
VERSION(cls) == "#0"

DateKeys == {"CALIBDATE", "CALIB_CREATION_DATE", "CALIB_CREATION_TIME"}

BaseAttributes ==
    {"_OBSTYPE", "_SCHEMA", "_VERSION", "_instrument", "_raftName", "_slotName",
     "_detectorName", "_detectorSerial", "_detectorId", "_filter", "_calibId", "_metadata"}

ProvenanceAttributes == {"calibType", "dimensions", "dataIdList"}

NoObj == [cls |-> "none"]

\* A value that is not a calibration.
PlainObject == [cls |-> "object"]

---------------------------------------------------------------------------
(* Descriptors handed in by the caller.  A detector name is the join of    *)
(* its "_"-free segments; str.split("_") recovers the segments.            *)

NoCamera == [given |-> FALSE, name |-> NoneV]
NoDetector == [given |-> FALSE, parts |-> <<>>, serial |-> NoneV, id |-> NoneV]

RECURSIVE Join(_)
Join(parts) ==
    IF Len(parts) = 0 THEN ""
    ELSE IF Len(parts) = 1 THEN parts[1]
    ELSE parts[1] \o "_" \o Join(Tail(parts))

getName(detector) == Join(detector.parts)

---------------------------------------------------------------------------
(* IsrCalib: construction and metadata.  Every operation returns           *)
(* [o |-> the object afterwards, exc |-> the exception raised or "none"].  *)

Ok(o) == [o |-> o, exc |-> "none"]
Raise(o, e) == [o |-> o, exc |-> e]

\* setMetadata (lines 170-185): store a copy, then force the three type keys.
setMetadata(o, metadata) ==
    LET m1 == MapSet(metadata, "OBSTYPE", OBSTYPE(o.cls))
        m2 == MapSet(m1, OBSTYPE(o.cls) \o "_SCHEMA", SCHEMA(o.cls))
        m3 == MapSet(m2, OBSTYPE(o.cls) \o "_VERSION", VERSION(o.cls))
    IN  [o EXCEPT !._metadata = m3]

\* The value updateMetadata writes for an identity field: `x if x else None`.
OrNone(v) == IF Falsy(v) THEN NoneV ELSE v

\* Lines 241-248: the identity fields written into the metadata.
IdentityMetadata(o) ==
    [INSTRUME |-> OrNone(o._instrument),
     RAFTNAME |-> OrNone(o._raftName),
     SLOTNAME |-> OrNone(o._slotName),
     DETECTOR |-> OrNone(o._detectorId),
     DET_NAME |-> OrNone(o._detectorName),
     DET_SER  |-> OrNone(o._detectorSerial),
     FILTER   |-> OrNone(o._filter),
     CALIB_ID |-> OrNone(o._calibId)]

\* Lines 235-239: the three creation-time keys, from one reading of the clock.
DateMetadata(now) ==
    [CALIBDATE |-> now.date \o "T" \o now.time,
     CALIB_CREATION_DATE |-> now.date,
     CALIB_CREATION_TIME |-> now.time]

\* A faulty merge: the metadata is rebuilt from the identity keys and the
\* supplement alone.
mergedMetadataRebuilt(o, mdSupplemental) == MapUpdate(IdentityMetadata(o), mdSupplemental)

\* Lines 241-251: the identity keys are written into the stored metadata, then
\* the supplement (dates and keywords) is merged over it.
mergedMetadata(o, mdSupplemental) ==
    MapUpdate(MapUpdate(o._metadata, IdentityMetadata(o)), mdSupplemental)

\* IsrCalib.updateMetadata (lines 187-251).
IsrCalib_updateMetadata(o, camera, detector, filterName, setCalibId, setDate, now, kwargs) ==
    LET o1 == IF camera.given THEN [o EXCEPT !._instrument = camera.name] ELSE o
        o2 == IF detector.given
              THEN [o1 EXCEPT !._detectorName = getName(detector),
                              !._detectorSerial = detector.serial,
                              !._detectorId = detector.id]
              ELSE o1
        hasSep == detector.given /\ Len(detector.parts) > 1
        o3 == IF hasSep /\ Len(detector.parts) = 2
              THEN [o2 EXCEPT !._raftName = detector.parts[1],
                              !._slotName = detector.parts[2]]
              ELSE o2
        o4 == IF ~Falsy(filterName) THEN [o3 EXCEPT !._filter = filterName] ELSE o3
        mdSupplemental == MapUpdate(IF setDate THEN DateMetadata(now) ELSE EmptyMap, kwargs)
        md == mergedMetadata(o4, mdSupplemental)
    IN  IF hasSep /\ Len(detector.parts) # 2
        THEN Raise(o2, "ValueError")         \* line 218: too many values to unpack
        ELSE IF setCalibId
        THEN Raise(o4, "AttributeError")     \* line 231: self._detector does not exist
        ELSE Ok([o4 EXCEPT !._metadata = md])

\* IsrProvenance.updateMetadata (lines 610-622) adds calibType to the keywords.
IsrProvenance_updateMetadata(o, camera, detector, filterName, setCalibId, setDate, now, kwargs) ==
    IsrCalib_updateMetadata(o, camera, detector, filterName, setCalibId, setDate, now,
                            MapSet(kwargs, "calibType", o.calibType))

\* self.updateMetadata(...): dispatch on the object's class.
updateMetadata(o, camera, detector, filterName, setCalibId, setDate, now, kwargs) ==
    IF IsSubclass(o.cls, "IsrProvenance")
    THEN IsrProvenance_updateMetadata(o, camera, detector, filterName, setCalibId, setDate, now, kwargs)
    ELSE IsrCalib_updateMetadata(o, camera, detector, filterName, setCalibId, setDate, now, kwargs)

NoClock == [date |-> "", time |-> ""]

\* IsrCalib.__init__ (lines 104-130) run on a partly initialised object o.
IsrCalib_init(o, camera, detector, detectorName, detectorId) ==
    LET o1 == [o EXCEPT !._instrument = NoneV, !._raftName = NoneV, !._slotName = NoneV,
                        !._detectorName = detectorName, !._detectorSerial = NoneV,
                        !._detectorId = detectorId, !._filter = NoneV, !._calibId = NoneV]
        o2 == setMetadata(o1, EmptyMap)
        o3 == [o2 EXCEPT !.requiredAttributes = BaseAttributes]
    IN  IF detector.given
        THEN Raise(o3, "NotImplementedError")   \* fromDetector, lines 439-453
        ELSE updateMetadata(o3, camera, detector, NoneV, FALSE, FALSE, NoClock, EmptyMap)

\* An object before __init__ has run: every attribute still missing.
Blank(cls, addr) ==
    [cls |-> cls, _instrument |-> NoneV, _raftName |-> NoneV, _slotName |-> NoneV,
     _detectorName |-> NoneV, _detectorSerial |-> NoneV, _detectorId |-> NoneV,
     _filter |-> NoneV, _calibId |-> NoneV, _metadata |-> EmptyMap,
     requiredAttributes |-> {}, calibType |-> NoneV, dimensions |-> {}, dataIdList |-> addr]

\* IsrProvenance.__init__ (lines 594-602); addr is the fresh list it allocates.
IsrProvenance_init(cls, addr, calibType, camera, detector, detectorName, detectorId) ==
    LET o1 == [Blank(cls, addr) EXCEPT !.calibType = calibType, !.dimensions = {}]
        r  == IsrCalib_init(o1, camera, detector, detectorName, detectorId)
    IN  IF r.exc # "none" THEN r
        ELSE Ok([r.o EXCEPT !.requiredAttributes = @ \cup ProvenanceAttributes])

\* cls(...): construct an instance of a class of the hierarchy.
New(cls, addr, calibType, camera, detector, detectorName, detectorId) ==
    IF IsSubclass(cls, "IsrProvenance")
    THEN IsrProvenance_init(cls, addr, calibType, camera, detector, detectorName, detectorId)
    ELSE IsrCalib_init(Blank(cls, addr), camera, detector, detectorName, detectorId)

\* A faulty fromDataIds: the keys of an identifier replace the dimensions
\* instead of being added to them.
RECURSIVE fromDataIdsReplacingKeys(_, _, _)
fromDataIdsReplacingKeys(dimensions, stored, dataIdList) ==
    IF dataIdList = <<>>
    THEN [dimensions |-> dimensions, dataIdList |-> stored]
    ELSE fromDataIdsReplacingKeys(DOMAIN Head(dataIdList),
                                  Append(stored, Head(dataIdList)),
                                  Tail(dataIdList))

\* IsrProvenance.fromDataIds (lines 624-636) on the dimension set and the list.
RECURSIVE fromDataIds(_, _, _)
fromDataIds(dimensions, stored, dataIdList) ==
    IF dataIdList = <<>>
    THEN [dimensions |-> dimensions, dataIdList |-> stored]
    ELSE fromDataIds(dimensions \cup DOMAIN Head(dataIdList),
                     Append(stored, Head(dataIdList)),
                     Tail(dataIdList))

---------------------------------------------------------------------------
(* IsrProvenance: conversions to and from dictionaries and tables.         *)

\* Every enumeration of a finite set: the orders in which list(aSet), or the
\* columns of a table named by a set, may come out.
Orderings(S) ==
    {q \in [1..Cardinality(S) -> S] : \A i, j \in 1..Cardinality(S) : q[i] = q[j] => i = j}

NoArgs == [dummy \in {} |-> NoneV]

\* IsrProvenance.toDict (lines 710-731).  `order` is the order list(self.dimensions)
\* happens to produce.  The object's own metadata is updated with the date.
toDict(o, now, order) ==
    LET r == updateMetadata(o, NoCamera, NoDetector, NoneV, FALSE, TRUE, now, NoArgs)
    IN  [o |-> r.o,
         exc |-> r.exc,
         out |-> [metadata |-> r.o._metadata,
                  detectorName |-> r.o._detectorName,
                  detectorSerial |-> r.o._detectorSerial,
                  instrument |-> r.o._instrument,
                  calibType |-> r.o.calibType,
                  dimensions |-> order,
                  dataIdList |-> r.o.dataIdList]]

FromDictKeys == {"metadata", "calibType", "dimensions", "dataIdList"}

\* IsrProvenance.fromDict (lines 677-708).  addr is the list cls() allocates,
\* dropped again when dataIdList is rebound to the dictionary's list.
fromDict(cls, addr, dictionary) ==
    LET r0 == New(cls, addr, "unknown", NoCamera, NoDetector, NoneV, NoneV)
        md == dictionary.metadata
        r1 == updateMetadata(r0.o, NoCamera, NoDetector, NoneV, FALSE, FALSE, NoClock, md)
        o2 == [r1.o EXCEPT
                 !._detectorName = MapGet(dictionary, "detectorName", MapGet(md, "DET_NAME", NoneV)),
                 !._detectorSerial = MapGet(dictionary, "detectorSerial", MapGet(md, "DET_SER", NoneV)),
                 !._instrument = MapGet(dictionary, "instrument", MapGet(md, "INSTRUME", NoneV)),
                 !.calibType = dictionary.calibType,
                 !.dimensions = Range(dictionary.dimensions),
                 !.dataIdList = dictionary.dataIdList]
    IN  IF ~(FromDictKeys \subseteq DOMAIN dictionary)
        THEN Raise(NoObj, "KeyError")
        ELSE updateMetadata(o2, NoCamera, NoDetector, NoneV, FALSE, FALSE, NoClock, NoArgs)

\* str.lower() on the words the model uses: identifier keys and the pieces
\* of file names.
Lower(k) ==
    CASE k = "Exposure" -> "exposure"
      [] k = "Detector" -> "detector"
      [] k \in {"YAML", "Yaml"} -> "yaml"
      [] k = "ECSV" -> "ecsv"
      [] OTHER -> k

\* astropy's Table(rows=..., names=...): one column per name, one row per
\* identifier; it refuses rows whose keys are not the column names.
TableAccepts(rows, names) == \A i \in DOMAIN rows : DOMAIN rows[i] = names

\* IsrProvenance.toTable (lines 733-752).  `order` is the column order the set
\* self.dimensions happens to produce; heap is the heap of lists.
toTable(o, now, order, heap) ==
    LET r == updateMetadata(o, NoCamera, NoDetector, NoneV, FALSE, TRUE, now, NoArgs)
        md == r.o._metadata
        filteredMetadata == [k \in {x \in DOMAIN md : md[x] # NoneV} |-> md[k]]
        catalog == [columns |-> order, rows |-> heap[o.dataIdList], meta |-> filteredMetadata]
    IN  IF ~TableAccepts(heap[o.dataIdList], o.dimensions)
        THEN [o |-> r.o, exc |-> "ValueError", out |-> <<>>]
        ELSE [o |-> r.o, exc |-> r.exc, out |-> <<catalog>>]

\* Lines 663-666: schema maps each lower-cased column name to the column that
\* set it last.
Schema(columns) ==
    [dim \in {Lower(columns[i]) : i \in DOMAIN columns} |->
        LET hits == {i \in DOMAIN columns : Lower(columns[i]) = dim}
        IN  columns[CHOOSE i \in hits : \A j \in hits : j <= i]]

\* Lines 669-673: one identifier per row, keyed by the lower-cased names.
RowEntries(table) ==
    LET schema == Schema(table.columns)
    IN  [i \in DOMAIN table.rows |-> [dim \in DOMAIN schema |-> table.rows[i][schema[dim]]]]

\* IsrProvenance.fromTable (lines 638-675).  addr is the new list
\* inDict['dataIdList']; `stored` is what that list holds afterwards.
fromTable(cls, addr, tables) ==
    LET table == tables[1]
        metadata == table.meta
        dims == DOMAIN Schema(table.columns)
        inDict == [metadata |-> metadata,
                   detectorName |-> MapGet(metadata, "DET_NAME", NoneV),
                   detectorSerial |-> MapGet(metadata, "DET_SER", NoneV),
                   instrument |-> MapGet(metadata, "INSTRUME", NoneV),
                   calibType |-> metadata["calibType"],
                   dimensions |-> CHOOSE q \in Orderings(dims) : TRUE,
                   dataIdList |-> addr]
        r == fromDict(cls, addr, inDict)
    IN  IF Len(tables) = 0
        THEN [o |-> NoObj, exc |-> "IndexError", stored |-> <<>>]
        ELSE IF "calibType" \notin DOMAIN metadata
        THEN [o |-> NoObj, exc |-> "KeyError", stored |-> <<>>]
        ELSE [o |-> r.o, exc |-> r.exc, stored |-> RowEntries(table)]

---------------------------------------------------------------------------
(* Equivalence.  Python's truth values are "True" and "False"; a method    *)
(* that declines answers "NotImplemented".                                 *)

\* getattr(a, attr) != getattr(b, attr) is false.
AttrEq(a, b, attr, heap) ==
    CASE attr = "_OBSTYPE" -> OBSTYPE(a.cls) = OBSTYPE(b.cls)
      [] attr = "_SCHEMA" -> SCHEMA(a.cls) = SCHEMA(b.cls)
      [] attr = "_VERSION" -> VERSION(a.cls) = VERSION(b.cls)
      [] attr = "dataIdList" -> heap[a.dataIdList] = heap[b.dataIdList]
      [] OTHER -> a[attr] = b[attr]

\* IsrCalib.__eq__ (lines 135-148), which IsrProvenance.__eq__ calls.
IsrCalib_eq(self, other, heap) ==
    IF ~IsSubclass(other.cls, self.cls)
    THEN "False"
    ELSE IF \A attr \in self.requiredAttributes : AttrEq(self, other, attr, heap)
    THEN "True"
    ELSE "False"

\* type(a).__eq__(a, b); object.__eq__ declines for two different objects.
DunderEq(a, b, heap) ==
    IF IsSubclass(a.cls, "IsrCalib") THEN IsrCalib_eq(a, b, heap) ELSE "NotImplemented"

\* A faulty dispatch of a == b: only the left operand's method is asked.
PyEqLeftOnly(a, b, heap) ==
    LET first == DunderEq(a, b, heap)
    IN  IF first # "NotImplemented" THEN first ELSE "False"

\* The operator a == b on two different objects: the right operand's method
\* runs first when its class is a proper subclass of the left operand's.
PyEq(a, b, heap) ==
    LET reflectedFirst == a.cls # b.cls /\ IsSubclass(b.cls, a.cls)
        first == IF reflectedFirst THEN DunderEq(b, a, heap) ELSE DunderEq(a, b, heap)
        second == IF reflectedFirst THEN DunderEq(a, b, heap) ELSE DunderEq(b, a, heap)
    IN  IF first # "NotImplemented" THEN first
        ELSE IF second # "NotImplemented" THEN second
        ELSE "False"

---------------------------------------------------------------------------
(* IsrCalib.calibInfoFromDict.  A dictionary is a mapping whose entry      *)
(* "metadata", when present, is itself a mapping.                          *)

\* search (lines 272-284).  len(test) is never 0 for a non-empty needle list;
\* test[0] on a set raises TypeError.
RECURSIVE search(_, _)
search(haystack, needles) ==
    LET test == {MapGet(haystack, needles[i], NoneV) : i \in DOMAIN needles}
    IN  IF Cardinality(test) = 0
        THEN IF "metadata" \in DOMAIN haystack
             THEN search(haystack.metadata, needles)
             ELSE [exc |-> "none", val |-> NoneV]
        ELSE IF Cardinality(test) = 1
        THEN [exc |-> "TypeError", val |-> NoneV]
        ELSE [exc |-> "ValueError", val |-> NoneV]

\* Lines 293-300: the identity fields in the order they are assigned, each with
\* its accepted keys.
InfoFields ==
    << <<"_instrument", <<"INSTRUME", "instrument">> >>,
       <<"_raftName", <<"RAFTNAME">> >>,
       <<"_slotName", <<"SLOTNAME">> >>,
       <<"_detectorId", <<"DETECTOR", "detectorId">> >>,
       <<"_detectorName", <<"DET_NAME", "DETECTOR_NAME", "detectorName">> >>,
       <<"_detectorSerial", <<"DET_SER", "DETECTOR_SERIAL", "detectorSerial">> >>,
       <<"_filter", <<"FILTER">> >>,
       <<"_calibId", <<"CALIB_ID">> >> >>

\* Lines 293-303: the assignments from the i-th on, then the detector-id fallback.
RECURSIVE assignInfo(_, _, _)
assignInfo(o, dictionary, i) ==
    IF i > Len(InfoFields)
    THEN IF Falsy(o._detectorId) /\ ~Falsy(o._detectorSerial)
         THEN Ok([o EXCEPT !._detectorId = o._detectorSerial])
         ELSE Ok(o)
    ELSE LET r == search(dictionary, InfoFields[i][2])
         IN  IF r.exc # "none"
             THEN Raise(o, r.exc)
             ELSE assignInfo([o EXCEPT ![InfoFields[i][1]] = r.val], dictionary, i + 1)

\* calibInfoFromDict (lines 253-303).  The message of the RuntimeError names
\* `calib`, which is not defined there: building it raises NameError.
calibInfoFromDict(o, dictionary) ==
    IF "metadata" \in DOMAIN dictionary /\ "OBSTYPE" \notin DOMAIN dictionary.metadata
    THEN Raise(o, "KeyError")
    ELSE IF "metadata" \in DOMAIN dictionary /\ OBSTYPE(o.cls) # dictionary.metadata.OBSTYPE
    THEN Raise(o, "NameError")
    ELSE assignInfo(o, dictionary, 1)

---------------------------------------------------------------------------
(* IsrCalib: reading and writing files.  A file name is a sequence of      *)
(* pieces: the extension separator ".", the directory separator "/", and   *)
(* words that contain neither.  A file's content is [kind, data]; the      *)
(* codecs (yaml, astropy) are taken to store and return what they are      *)
(* given.                                                                  *)

\* str.lower() on a file name.
LowerName(name) == [i \in DOMAIN name |-> Lower(name[i])]

\* str.endswith(suffix)
EndsWith(name, suffix) ==
    /\ Len(name) >= Len(suffix)
    /\ SubSeq(name, Len(name) - Len(suffix) + 1, Len(name)) = suffix

\* str.endswith((suffix1, suffix2, ...))
EndsWithAny(name, suffixes) == \E suffix \in suffixes : EndsWith(name, suffix)

\* str.rfind(piece): the last position of a separator, 0 when there is none.
LastIndexOf(name, piece) ==
    LET hits == {i \in DOMAIN name : name[i] = piece}
    IN  IF hits = {} THEN 0 ELSE CHOOSE i \in hits : \A j \in hits : j <= i

\* os.path.splitext: the extension starts at the last "." of the base name,
\* unless only dots come before it there.
splitext(p) ==
    LET sepIndex == LastIndexOf(p, "/")
        dotIndex == LastIndexOf(p, ".")
    IN  IF dotIndex > sepIndex /\ \E i \in (sepIndex + 1)..(dotIndex - 1) : p[i] # "."
        THEN <<SubSeq(p, 1, dotIndex - 1), SubSeq(p, dotIndex, Len(p))>>
        ELSE <<p, <<>>>>

\* A faulty dispatch of writeText: the extension is compared as written.
textFormatCaseSensitive(name, fmt) ==
    IF fmt = "yaml" \/ (fmt = "auto" /\ EndsWith(name, <<".", "yaml">>))
    THEN "yaml"
    ELSE IF fmt = "ecsv" \/ (fmt = "auto" /\ EndsWith(name, <<".", "ecsv">>))
    THEN "ecsv"
    ELSE "unsupported"

\* Lines 365, 371, 382: the format writeText settles on.
textFormat(name, fmt) ==
    IF fmt = "yaml"
       \/ (fmt = "auto" /\ EndsWithAny(LowerName(name), {<<".", "yaml">>, <<".", "YAML">>}))
    THEN "yaml"
    ELSE IF fmt = "ecsv"
       \/ (fmt = "auto" /\ EndsWithAny(LowerName(name), {<<".", "ecsv">>, <<".", "ECSV">>}))
    THEN "ecsv"
    ELSE "unsupported"

\* A faulty normalisation: the requested name is used as it is.
normalizedAsRequested(name, ext) == name

\* Lines 367-368 and 379-380: the extension is replaced by the format's.
normalized(name, ext) == splitext(name)[1] \o <<".", ext>>

NoFiles == [path \in {} |-> NoneV]
Hook(name, data) == [name |-> name, data |-> data]
TheDict == <<"outDict">>      \* what the variant's toDict() returns

\* writeText (lines 335-386).  tables is what self.toTable() returns.  Gives
\* the exception, the name returned, the file system and the hooks called.
writeText(files, name, fmt, tables) ==
    LET chosen == textFormat(name, fmt)
        used == normalized(name, chosen)
    IN  CASE chosen = "yaml" ->
                [exc |-> "none", used |-> used,
                 fs |-> MapSet(files, used, [kind |-> "yaml", data |-> TheDict]),
                 hooks |-> <<Hook("toDict", <<>>)>>]
          [] chosen = "ecsv" /\ Len(tables) > 1 ->
                [exc |-> "RuntimeError", used |-> <<>>, fs |-> files,
                 hooks |-> <<Hook("toTable", <<>>)>>]
          [] chosen = "ecsv" /\ Len(tables) = 0 ->
                [exc |-> "IndexError", used |-> <<>>, fs |-> files,
                 hooks |-> <<Hook("toTable", <<>>)>>]
          [] chosen = "ecsv" /\ Len(tables) = 1 ->
                [exc |-> "none", used |-> used,
                 fs |-> MapSet(files, used, [kind |-> "ecsv", data |-> <<tables[1]>>]),
                 hooks |-> <<Hook("toTable", <<>>)>>]
          [] OTHER ->
                [exc |-> "RuntimeError", used |-> <<>>, fs |-> files, hooks |-> <<>>]

\* Line 381: table.write(filename, format="ascii.ecsv") is called without
\* overwrite.  When the file exists, astropy replaces it or refuses with
\* OSError, depending on its version; every other write has one outcome.
writeTextOutcomes(files, name, fmt, tables) ==
    LET r == writeText(files, name, fmt, tables)
    IN  IF r.exc = "none" /\ textFormat(name, fmt) = "ecsv" /\ r.used \in DOMAIN files
        THEN {r, [exc |-> "OSError", used |-> <<>>, fs |-> files, hooks |-> r.hooks]}
        ELSE {r}

\* Lines 324, 328, 332: the format readText settles on.
readFormat(name) ==
    IF EndsWithAny(name, {<<".", "ecsv">>, <<".", "ECSV">>}) THEN "ecsv"
    ELSE IF EndsWithAny(name, {<<".", "yaml">>, <<".", "YAML">>}) THEN "yaml"
    ELSE "unsupported"

\* readText (lines 305-333): the exception and the hook called with the data read.
readText(files, name) ==
    LET chosen == readFormat(name)
    IN  IF chosen = "unsupported" THEN [exc |-> "RuntimeError", hooks |-> <<>>]
        ELSE IF name \notin DOMAIN files THEN [exc |-> "FileNotFoundError", hooks |-> <<>>]
        ELSE IF files[name].kind # chosen THEN [exc |-> "ReadError", hooks |-> <<>>]
        ELSE IF chosen = "ecsv"
        THEN [exc |-> "none", hooks |-> <<Hook("fromTable", files[name].data)>>]
        ELSE [exc |-> "none", hooks |-> <<Hook("fromDict", files[name].data)>>]

\* A faulty writeFits: the segments are appended to a file that exists.
writeFitsAppending(files, name, tables) ==
    LET before == IF name \in DOMAIN files /\ files[name].kind = "fits"
                  THEN files[name].data ELSE <<"primary">>
    IN  [exc |-> "none", used |-> name,
         fs |-> MapSet(files, name, [kind |-> "fits", data |-> before \o tables]),
         hooks |-> <<Hook("toTable", <<>>)>>]

\* writeFits (lines 415-437): an empty primary segment, then one per table.
writeFits(files, name, tables) ==
    [exc |-> "none", used |-> name,
     fs |-> MapSet(files, name, [kind |-> "fits", data |-> <<"primary">> \o tables]),
     hooks |-> <<Hook("toTable", <<>>)>>]

\* Line 406: warnings.catch_warnings takes keyword arguments only, so
\* catch_warnings("error") raises TypeError before segment 2 is read.
CatchWarningsRaises == TRUE

\* readFits (lines 388-413).  Segment n is data[n + 1].  Segment 1 is read;
\* segment 2 is tried once, and any exception there is swallowed.
readFits(files, name) ==
    LET hdus == files[name].data
        first == <<hdus[2]>>
        tables == IF CatchWarningsRaises \/ Len(hdus) < 3 THEN first ELSE Append(first, hdus[3])
    IN  IF name \notin DOMAIN files THEN [exc |-> "FileNotFoundError", hooks |-> <<>>]
        ELSE IF files[name].kind # "fits" THEN [exc |-> "ReadError", hooks |-> <<>>]
        ELSE IF Len(hdus) < 2 THEN [exc |-> "ReadError", hooks |-> <<>>]
        ELSE [exc |-> "none", hooks |-> <<Hook("fromTable", tables)>>]

---------------------------------------------------------------------------
(* The inputs explored. *)

CalibTypes == {"unknown", "flat"}
DetectorNames == {NoneV, "R0_S1"}
DetectorIds == {NoneV, "#0", "#5"}
LSSTCam == [given |-> TRUE, name |-> "LSSTCam"]
DetectorA == [given |-> TRUE, parts |-> <<"R1", "S2">>, serial |-> "ITL-1", id |-> "#7"]
DetectorB == [given |-> TRUE, parts |-> <<"D3">>, serial |-> "", id |-> "#0"]
DetectorC == [given |-> TRUE, parts |-> <<"R1", "S2", "A">>, serial |-> "ITL-2", id |-> "#8"]
FilterNames == {NoneV, "r"}
Clock == {[date |-> "2020-01-01", time |-> "10:00:00"]}

IdA == [exposure |-> 100, detector |-> 5]
IdB == [exposure |-> 101, detector |-> 5]
IdC == [exposure |-> 100]
IdD == [Exposure |-> 100]
DataIds == {NoArgs, IdA, IdB, IdC, IdD}

RECURSIVE SeqsUpTo(_, _)
SeqsUpTo(S, n) ==
    IF n = 0 THEN {<<>>}
    ELSE LET shorter == SeqsUpTo(S, n - 1)
         IN  shorter \cup {Append(q, x) : q \in {r \in shorter : Len(r) = n - 1}, x \in S}

CAddr == "list-1"    \* the list c allocates
DAddr == "list-2"    \* the list d allocates

NoRes == "<nothing>"

\* The caller holds no mapping of its own.
NoCaller == [metadata |-> NoArgs, shared |-> FALSE, handed |-> NoArgs]

\* The values of the variables a specification does not use.
IdleProv ==
    /\ d = NoObj
    /\ lists = [a \in {CAddr, DAddr} |-> <<>>]
    /\ calls = EmptyBag
IdleInfo == arg = NoArgs
IdleMeta == caller = NoCaller
IdleIo ==
    /\ filename = <<>>
    /\ format = "auto"
    /\ tableList = <<>>
    /\ fs = NoFiles
    /\ hooks = <<>>

---------------------------------------------------------------------------
(* The operations of one provenance c, each over the inputs it is given.   *)
(* The caller stops at the first exception: nothing more is done to an     *)
(* object once an operation on it has raised.                              *)

\* c = IsrProvenance(calibType=..., camera=..., detector=..., detectorName=..., detectorId=...)
ConstructWith(cameras, detectors) ==
    /\ c = NoObj
    /\ last = "start"
    /\ \E calibType \in CalibTypes, camera \in cameras, detector \in detectors,
          detectorName \in DetectorNames, detectorId \in DetectorIds :
          LET r == New("IsrProvenance", CAddr, calibType, camera, detector, detectorName, detectorId)
          IN  /\ c' = IF r.exc = "none" THEN r.o ELSE NoObj
              /\ err' = r.exc
    /\ last' = "init"
    /\ res' = NoRes
    /\ UNCHANGED <<d, lists, calls, arg, caller>>
    /\ UNCHANGED ioVars

\* c.updateMetadata(camera=..., detector=..., filterName=..., setCalibId=..., setDate=..., **extra)
UpdateMetadataWith(cameras, detectors, calibIdFlags, extras) ==
    /\ c # NoObj
    /\ d = NoObj
    /\ err = "none"
    /\ \E camera \in cameras, detector \in detectors, filterName \in FilterNames,
          setCalibId \in calibIdFlags, setDate \in BOOLEAN, now \in Clock, kwargs \in extras :
          LET r == updateMetadata(c, camera, detector, filterName, setCalibId, setDate, now, kwargs)
          IN  /\ c' = r.o
              /\ err' = r.exc
    /\ last' = "updateMetadata"
    /\ res' = NoRes
    /\ UNCHANGED <<d, lists, calls, arg, caller>>
    /\ UNCHANGED ioVars

\* c.fromDataIds(dataIdList)
FromDataIdsWith(dataIdLists) ==
    /\ c # NoObj
    /\ d = NoObj
    /\ err = "none"
    /\ BagCardinality(calls) < MaxCalls
    /\ \E dataIdList \in dataIdLists :
          /\ Len(lists[c.dataIdList]) + Len(dataIdList) <= MaxIds
          /\ LET r == fromDataIds(c.dimensions, lists[c.dataIdList], dataIdList)
             IN  /\ c' = [c EXCEPT !.dimensions = r.dimensions]
                 /\ lists' = [lists EXCEPT ![c.dataIdList] = r.dataIdList]
          /\ calls' = calls (+) SetToBag({dataIdList})
    /\ last' = "fromDataIds"
    /\ err' = "none"
    /\ res' = NoRes
    /\ UNCHANGED <<d, arg, caller>>
    /\ UNCHANGED ioVars

\* outDict = c.toDict()
ToDict ==
    /\ c # NoObj
    /\ d = NoObj
    /\ err = "none"
    /\ \E now \in Clock, order \in Orderings(c.dimensions) :
          LET r == toDict(c, now, order)
          IN  /\ c' = r.o
              /\ err' = r.exc
              /\ res' = r.out
    /\ last' = "toDict"
    /\ UNCHANGED <<d, lists, calls, arg, caller>>
    /\ UNCHANGED ioVars

\* d = IsrProvenance.fromDict(outDict), with the dictionary toDict just returned
FromDict ==
    /\ last = "toDict"
    /\ err = "none"
    /\ LET r == fromDict("IsrProvenance", DAddr, res)
       IN  /\ d' = r.o
           /\ err' = r.exc
    /\ last' = "fromDict"
    /\ res' = NoRes
    /\ UNCHANGED <<c, lists, calls, arg, caller>>
    /\ UNCHANGED ioVars

\* tableList = c.toTable()
ToTable ==
    /\ c # NoObj
    /\ d = NoObj
    /\ err = "none"
    /\ \E now \in Clock, order \in Orderings(c.dimensions) :
          LET r == toTable(c, now, order, lists)
          IN  /\ c' = r.o
              /\ err' = r.exc
              /\ res' = r.out
    /\ last' = "toTable"
    /\ UNCHANGED <<d, lists, calls, arg, caller>>
    /\ UNCHANGED ioVars

\* d = IsrProvenance.fromTable(tableList), with the tables toTable just returned
FromTable ==
    /\ last = "toTable"
    /\ err = "none"
    /\ LET r == fromTable("IsrProvenance", DAddr, res)
       IN  /\ d' = r.o
           /\ err' = r.exc
           /\ lists' = [lists EXCEPT ![DAddr] = r.stored]
    /\ last' = "fromTable"
    /\ res' = NoRes
    /\ UNCHANGED <<c, calls, arg, caller>>
    /\ UNCHANGED ioVars

---------------------------------------------------------------------------
(* Spec: a provenance is built, updated, filled and converted there and    *)
(* back.                                                                   *)

Init ==
    /\ c = NoObj
    /\ IdleProv
    /\ last = "start"
    /\ err = "none"
    /\ res = NoRes
    /\ IdleMeta
    /\ IdleInfo
    /\ IdleIo

Construct == ConstructWith({NoCamera, LSSTCam}, {NoDetector, DetectorA})

UpdateMetadata ==
    UpdateMetadataWith({NoCamera, LSSTCam}, {NoDetector, DetectorA, DetectorB}, {FALSE},
                       {NoArgs, [note |-> "x"]})

FromDataIds == FromDataIdsWith(SeqsUpTo({IdA, IdD}, MaxIds) \ {<<>>})

Next ==
    \/ Construct
    \/ UpdateMetadata
    \/ FromDataIds
    \/ ToDict
    \/ FromDict
    \/ ToTable
    \/ FromTable

Spec == Init /\ [][Next]_vars

---------------------------------------------------------------------------
(* SpecDims: a freshly constructed provenance receives fromDataIds calls.  *)

InitDims ==
    /\ \E calibType \in CalibTypes, detectorName \in DetectorNames, detectorId \in DetectorIds :
          c = New("IsrProvenance", CAddr, calibType, NoCamera, NoDetector, detectorName, detectorId).o
    /\ IdleProv
    /\ last = "init"
    /\ err = "none"
    /\ res = NoRes
    /\ IdleMeta
    /\ IdleInfo
    /\ IdleIo

FromDataIdsAny == FromDataIdsWith(SeqsUpTo(DataIds, MaxIds))

NextDims == FromDataIdsAny

SpecDims == InitDims /\ [][NextDims]_vars

---------------------------------------------------------------------------
(* SpecEq: two objects are built and compared with ==, in either order.    *)

\* The objects compared: calibrations of each class, with or without a
\* detector id and a stored identifier, and a value that is no calibration.
Built(cls, addr, calibType, detectorId, dataIdList) ==
    LET o == New(cls, addr, calibType, NoCamera, NoDetector, NoneV, detectorId).o
    IN  IF IsSubclass(cls, "IsrProvenance")
        THEN [o EXCEPT !.dimensions = fromDataIds(o.dimensions, <<>>, dataIdList).dimensions]
        ELSE o

InitEq ==
    /\ \E cls1 \in Classes, cls2 \in Classes \cup {"object"},
          type1 \in CalibTypes, type2 \in CalibTypes,
          id1 \in {NoneV, "#5"}, id2 \in {NoneV, "#5"},
          list1 \in {<<>>, <<IdA>>}, list2 \in {<<>>, <<IdA>>} :
          /\ c = Built(cls1, CAddr, type1, id1, list1)
          /\ d = IF cls2 = "object" THEN PlainObject ELSE Built(cls2, DAddr, type2, id2, list2)
          /\ lists = [a \in {CAddr, DAddr} |->
                        IF a = CAddr
                        THEN (IF IsSubclass(cls1, "IsrProvenance") THEN list1 ELSE <<>>)
                        ELSE (IF IsSubclass(cls2, "IsrProvenance") THEN list2 ELSE <<>>)]
    /\ calls = EmptyBag
    /\ last = "init"
    /\ err = "none"
    /\ res = NoRes
    /\ IdleMeta
    /\ IdleInfo
    /\ IdleIo

\* res = (c == d)
Equals ==
    /\ last = "init"
    /\ res' = PyEq(c, d, lists)
    /\ last' = "c == d"
    /\ UNCHANGED <<c, d, lists, calls, err, arg, caller>>
    /\ UNCHANGED ioVars

\* res = (d == c)
EqualsSwapped ==
    /\ last = "init"
    /\ res' = PyEq(d, c, lists)
    /\ last' = "d == c"
    /\ UNCHANGED <<c, d, lists, calls, err, arg, caller>>
    /\ UNCHANGED ioVars

NextEq ==
    \/ Equals
    \/ EqualsSwapped

SpecEq == InitEq /\ [][NextEq]_vars

---------------------------------------------------------------------------
(* SpecInfo: calibInfoFromDict is applied to a constructed provenance.     *)

InfoKeys == {"INSTRUME", "instrument", "DET_NAME", "FILTER"}

\* Every mapping from some of the keys K to the values V.
MapsOver(K, V) == UNION {[sub -> V] : sub \in SUBSET K}

InfoMetadata ==
    {NoArgs,
     [OBSTYPE |-> "IsrProvenance"],
     [OBSTYPE |-> "IsrProvenance", INSTRUME |-> "A"],
     [OBSTYPE |-> "BIAS"],
     [OBSTYPE |-> "BIAS", INSTRUME |-> "A"]}

InfoDicts ==
    MapsOver(InfoKeys, {"A", "B"})
        \cup {MapSet(top, "metadata", md) : top \in MapsOver(InfoKeys, {"A", "B"}), md \in InfoMetadata}

InitInfo ==
    /\ \E calibType \in CalibTypes, detectorId \in DetectorIds :
          c = New("IsrProvenance", CAddr, calibType, NoCamera, NoDetector, "R0_S1", detectorId).o
    /\ IdleProv
    /\ last = "init"
    /\ err = "none"
    /\ res = NoRes
    /\ IdleMeta
    /\ arg \in InfoDicts
    /\ IdleIo

\* c.calibInfoFromDict(arg)
CalibInfoFromDict ==
    /\ last = "init"
    /\ LET r == calibInfoFromDict(c, arg)
       IN  /\ c' = r.o
           /\ err' = r.exc
    /\ last' = "calibInfoFromDict"
    /\ UNCHANGED <<d, lists, calls, res, arg, caller>>
    /\ UNCHANGED ioVars

NextInfo == CalibInfoFromDict

SpecInfo == InitInfo /\ [][NextInfo]_vars

---------------------------------------------------------------------------
(* SpecIo: a calibration of some variant is written to a file, which is    *)
(* then read back.                                                         *)

NamePieces == {"cal", ".", "/", "yaml", "YAML", "Yaml", "ecsv", "txt"}
FileNames == SeqsUpTo(NamePieces, MaxNameLen) \ {<<>>}
Formats == {"auto", "yaml", "ecsv", "YAML", "fits"}
TableLists == {[i \in 1..n |-> "table-" \o ToString(i)] : n \in 1..MaxTables}

InitIo ==
    /\ c = NoObj
    /\ IdleProv
    /\ last = "init"
    /\ err = "none"
    /\ res = NoRes
    /\ IdleMeta
    /\ IdleInfo
    /\ filename \in FileNames
    /\ format \in Formats
    /\ tableList \in TableLists
    /\ fs = NoFiles
    /\ hooks = <<>>

\* res = calib.writeText(filename, format)
WriteText ==
    /\ last = "init"
    /\ LET r == writeText(fs, filename, format, tableList)
       IN  /\ err' = r.exc
           /\ res' = r.used
           /\ fs' = r.fs
           /\ hooks' = hooks \o r.hooks
    /\ last' = "writeText"
    /\ UNCHANGED <<c, d, lists, calls, arg, caller, filename, format, tableList>>

\* cls.readText(res), with the name writeText just returned
ReadText ==
    /\ last = "writeText"
    /\ err = "none"
    /\ LET r == readText(fs, res)
       IN  /\ err' = r.exc
           /\ hooks' = hooks \o r.hooks
    /\ last' = "readText"
    /\ UNCHANGED <<c, d, lists, calls, arg, caller, res, filename, format, tableList, fs>>

\* res = calib.writeFits(filename)
WriteFits ==
    /\ last = "init"
    /\ format = "fits"
    /\ LET r == writeFits(fs, filename, tableList)
       IN  /\ err' = r.exc
           /\ res' = r.used
           /\ fs' = r.fs
           /\ hooks' = hooks \o r.hooks
    /\ last' = "writeFits"
    /\ UNCHANGED <<c, d, lists, calls, arg, caller, filename, format, tableList>>

\* cls.readFits(res), with the name writeFits just returned
ReadFits ==
    /\ last = "writeFits"
    /\ err = "none"
    /\ LET r == readFits(fs, res)
       IN  /\ err' = r.exc
           /\ hooks' = hooks \o r.hooks
    /\ last' = "readFits"
    /\ UNCHANGED <<c, d, lists, calls, arg, caller, res, filename, format, tableList, fs>>

NextIo ==
    \/ WriteText
    \/ ReadText
    \/ WriteFits
    \/ ReadFits

SpecIo == InitIo /\ [][NextIo]_vars

---------------------------------------------------------------------------
(* SpecMeta: a provenance is constructed, possibly from descriptors, is    *)
(* given a mapping of the caller's with setMetadata, and has               *)
(* updateMetadata called on it with every kind of argument.  `arg` keeps   *)
(* the arguments of the last call.                                         *)

\* A faulty setMetadata: the caller's mapping itself is stored, so the forced
\* keys are written into it and it stays the calibration's metadata.
callerAfterSetMetadataByReference(o, metadata) ==
    [metadata |-> setMetadata(o, metadata)._metadata, shared |-> TRUE, handed |-> metadata]

\* Line 180: copy.copy gives the calibration a mapping of its own; the
\* caller's mapping is left as it was and is not the one stored.  `handed`
\* remembers what the mapping held when it was handed in.
callerAfterSetMetadata(o, metadata) ==
    [metadata |-> metadata, shared |-> FALSE, handed |-> metadata]

\* What the caller's mapping holds after the calibration's metadata changed.
callerSees(held, o) == IF held.shared THEN [held EXCEPT !.metadata = o._metadata] ELSE held

CallerMetadata ==
    {NoArgs, [OBSERVER |-> "me"], [OBSERVER |-> "me", OBSTYPE |-> "BIAS"]}

ExtraFields == {NoArgs, [note |-> "x"], [INSTRUME |-> "Z"]}

InitMeta ==
    /\ c = NoObj
    /\ IdleProv
    /\ last = "start"
    /\ err = "none"
    /\ res = NoRes
    /\ IdleMeta
    /\ IdleInfo
    /\ IdleIo

\* c = IsrProvenance(camera=..., detector=..., detectorName=..., detectorId=...)
ConstructFrom ==
    /\ c = NoObj
    /\ last = "start"
    /\ \E camera \in {NoCamera, LSSTCam}, detector \in {NoDetector, DetectorA},
          detectorName \in DetectorNames, detectorId \in DetectorIds :
          LET r == New("IsrProvenance", CAddr, "flat", camera, detector, detectorName, detectorId)
          IN  /\ c' = IF r.exc = "none" THEN r.o ELSE NoObj
              /\ err' = r.exc
              /\ arg' = [camera |-> camera, detector |-> detector,
                         detectorName |-> detectorName, detectorId |-> detectorId]
    /\ last' = "init"
    /\ UNCHANGED <<d, lists, calls, res, caller>>
    /\ UNCHANGED ioVars

\* c.setMetadata(metadata)
SetMetadata ==
    /\ c # NoObj
    /\ err = "none"
    /\ \E metadata \in CallerMetadata :
          /\ c' = setMetadata(c, metadata)
          /\ caller' = callerAfterSetMetadata(c, metadata)
          /\ arg' = [metadata |-> metadata]
    /\ last' = "setMetadata"
    /\ err' = "none"
    /\ UNCHANGED <<d, lists, calls, res>>
    /\ UNCHANGED ioVars

\* c.updateMetadata(camera=..., detector=..., filterName=..., setCalibId=..., setDate=..., **kwargs)
UpdateMetadataAny ==
    /\ c # NoObj
    /\ err = "none"
    /\ \E camera \in {NoCamera, LSSTCam}, detector \in {NoDetector, DetectorA, DetectorB, DetectorC},
          filterName \in FilterNames, setCalibId \in BOOLEAN, setDate \in BOOLEAN,
          now \in Clock, kwargs \in ExtraFields :
          LET r == updateMetadata(c, camera, detector, filterName, setCalibId, setDate, now, kwargs)
          IN  /\ c' = r.o
              /\ err' = r.exc
              /\ caller' = callerSees(caller, r.o)
              /\ arg' = [camera |-> camera, detector |-> detector, filterName |-> filterName,
                         setCalibId |-> setCalibId, setDate |-> setDate, kwargs |-> kwargs]
    /\ last' = "updateMetadata"
    /\ UNCHANGED <<d, lists, calls, res>>
    /\ UNCHANGED ioVars

NextMeta ==
    \/ ConstructFrom
    \/ SetMetadata
    \/ UpdateMetadataAny

SpecMeta == InitMeta /\ [][NextMeta]_vars

---------------------------------------------------------------------------
(* SpecRead: a provenance d is read from a dictionary or a table that the  *)
(* caller supplies, and then receives fromDataIds calls.  The list of the  *)
(* caller's dictionary lives at CAddr; DAddr is the list the read          *)
(* allocates.                                                              *)

ReadMetadata == {NoArgs, [OBSTYPE |-> "IsrProvenance"], [OBSTYPE |-> "BIAS"]}

\* The sequences over S without repetition.
Enumerations(S) == UNION {Orderings(sub) : sub \in SUBSET S}

\* The dictionaries read: every one carries the keys fromDict requires.
ReadDicts ==
    {[metadata |-> md, calibType |-> "flat", dimensions |-> dims, dataIdList |-> CAddr] :
        md \in ReadMetadata, dims \in Enumerations({"exposure", "detector"})}

\* The tables read: any columns, and rows that give every column a value.
ReadTables ==
    {[columns |-> cols,
      rows |-> [i \in 1..n |-> [col \in Range(cols) |-> 100 + i]],
      meta |-> MapSet(md, "calibType", "flat")] :
        md \in ReadMetadata, cols \in Enumerations({"exposure", "Detector"}), n \in 0..MaxIds}

InitRead ==
    /\ c = NoObj
    /\ d = NoObj
    /\ \/ /\ arg \in {[dictionary |-> x] : x \in ReadDicts}
          /\ lists \in {[a \in {CAddr, DAddr} |-> IF a = CAddr THEN q ELSE <<>>] :
                           q \in SeqsUpTo({IdA, IdC}, MaxIds)}
       \/ /\ arg \in {[tableList |-> <<x>>] : x \in ReadTables}
          /\ lists = [a \in {CAddr, DAddr} |-> <<>>]
    /\ calls = EmptyBag
    /\ last = "start"
    /\ err = "none"
    /\ res = NoRes
    /\ IdleMeta
    /\ IdleIo

\* d = IsrProvenance.fromDict(dictionary)
FromDictGiven ==
    /\ last = "start"
    /\ "dictionary" \in DOMAIN arg
    /\ LET r == fromDict("IsrProvenance", DAddr, arg.dictionary)
       IN  /\ d' = r.o
           /\ err' = r.exc
    /\ last' = "fromDict"
    /\ UNCHANGED <<c, lists, calls, res, arg, caller>>
    /\ UNCHANGED ioVars

\* d = IsrProvenance.fromTable(tableList)
FromTableGiven ==
    /\ last = "start"
    /\ "tableList" \in DOMAIN arg
    /\ LET r == fromTable("IsrProvenance", DAddr, arg.tableList)
       IN  /\ d' = r.o
           /\ err' = r.exc
           /\ lists' = [lists EXCEPT ![DAddr] = r.stored]
    /\ last' = "fromTable"
    /\ UNCHANGED <<c, calls, res, arg, caller>>
    /\ UNCHANGED ioVars

\* d.fromDataIds(dataIdList)
FromDataIdsOnRead ==
    /\ d # NoObj
    /\ err = "none"
    /\ BagCardinality(calls) < MaxCalls
    /\ \E dataIdList \in SeqsUpTo({IdC, IdD}, 1) :
          /\ Len(lists[d.dataIdList]) + Len(dataIdList) <= MaxIds + 1
          /\ LET r == fromDataIds(d.dimensions, lists[d.dataIdList], dataIdList)
             IN  /\ d' = [d EXCEPT !.dimensions = r.dimensions]
                 /\ lists' = [lists EXCEPT ![d.dataIdList] = r.dataIdList]
          /\ calls' = calls (+) SetToBag({dataIdList})
    /\ last' = "fromDataIds"
    /\ err' = "none"
    /\ UNCHANGED <<c, res, arg, caller>>
    /\ UNCHANGED ioVars

NextRead ==
    \/ FromDictGiven
    \/ FromTableGiven
    \/ FromDataIdsOnRead

SpecRead == InitRead /\ [][NextRead]_vars

---------------------------------------------------------------------------
(* SpecShare: a provenance c that holds some identifiers is copied with    *)
(* d = IsrProvenance.fromDict(c.toDict()); then c, d and the dictionary    *)
(* are changed by the caller.  `last` names the object changed.            *)

InitShare ==
    /\ \E stored \in SeqsUpTo({IdA, IdC}, MaxIds), detectorId \in {NoneV, "#5"} :
          /\ c = Built("IsrProvenance", CAddr, "flat", detectorId, stored)
          /\ lists = [a \in {CAddr, DAddr} |-> IF a = CAddr THEN stored ELSE <<>>]
    /\ d = NoObj
    /\ calls = EmptyBag
    /\ last = "init"
    /\ err = "none"
    /\ res = NoRes
    /\ IdleMeta
    /\ IdleInfo
    /\ IdleIo

\* The object named: "c" or "d".
Named(name) == IF name = "c" THEN c ELSE d

\* c.fromDataIds(dataIdList) or d.fromDataIds(dataIdList), once d exists
FromDataIdsOnEither ==
    /\ d # NoObj
    /\ err = "none"
    /\ BagCardinality(calls) < MaxCalls
    /\ \E name \in {"c", "d"}, dataIdList \in {<<IdB>>, <<IdD>>} :
          LET o == Named(name)
              r == fromDataIds(o.dimensions, lists[o.dataIdList], dataIdList)
              o2 == [o EXCEPT !.dimensions = r.dimensions]
          IN  /\ c' = IF name = "c" THEN o2 ELSE c
              /\ d' = IF name = "d" THEN o2 ELSE d
              /\ lists' = [lists EXCEPT ![o.dataIdList] = r.dataIdList]
              /\ calls' = calls (+) SetToBag({dataIdList})
              /\ last' = name \o ".fromDataIds"
    /\ err' = "none"
    /\ UNCHANGED <<res, arg, caller>>
    /\ UNCHANGED ioVars

\* c.updateMetadata(**kwargs) or d.updateMetadata(**kwargs), once d exists
UpdateMetadataOnEither ==
    /\ d # NoObj
    /\ err = "none"
    /\ \E name \in {"c", "d"}, kwargs \in {NoArgs, [note |-> "x"]} :
          LET r == updateMetadata(Named(name), NoCamera, NoDetector, NoneV, FALSE, FALSE,
                                  NoClock, kwargs)
          IN  /\ c' = IF name = "c" THEN r.o ELSE c
              /\ d' = IF name = "d" THEN r.o ELSE d
              /\ err' = r.exc
              /\ last' = name \o ".updateMetadata"
    /\ UNCHANGED <<lists, calls, res, arg, caller>>
    /\ UNCHANGED ioVars

\* d.setMetadata(metadata)
SetMetadataOnCopy ==
    /\ d # NoObj
    /\ err = "none"
    /\ \E metadata \in CallerMetadata : d' = setMetadata(d, metadata)
    /\ last' = "d.setMetadata"
    /\ err' = "none"
    /\ UNCHANGED <<c, lists, calls, res, arg, caller>>
    /\ UNCHANGED ioVars

\* outDict['metadata'][key] = value, by the caller that holds the dictionary
\* toDict returned.  Lines 722-723: outDict['metadata'] is self._metadata
\* itself, so the assignment lands in the calibration's metadata.
OutDictMetadataSet ==
    /\ last = "toDict"
    /\ err = "none"
    /\ \E key \in {"OBSERVER"}, value \in {"me"} :
          /\ res' = [res EXCEPT !.metadata = MapSet(@, key, value)]
          /\ c' = [c EXCEPT !._metadata = MapSet(@, key, value)]
    /\ last' = "outDict.metadata.set"
    /\ err' = "none"
    /\ UNCHANGED <<d, lists, calls, arg, caller>>
    /\ UNCHANGED ioVars

NextShare ==
    \/ ToDict
    \/ FromDict
    \/ FromDataIdsOnEither
    \/ UpdateMetadataOnEither
    \/ SetMetadataOnCopy
    \/ OutDictMetadataSet

SpecShare == InitShare /\ [][NextShare]_vars

---------------------------------------------------------------------------
(* SpecFiles: calibrations are written, one call after the other, to names *)
(* of one directory.  filename, format and tableList keep the arguments of *)
(* the last call.                                                          *)

WrittenNames == {<<"cal", ".", ext>> : ext \in {"yaml", "YAML", "ecsv", "txt"}}

InitFiles ==
    /\ c = NoObj
    /\ IdleProv
    /\ last = "init"
    /\ err = "none"
    /\ res = NoRes
    /\ IdleMeta
    /\ IdleInfo
    /\ IdleIo

\* res = calib.writeText(name, fmt), for a calibration whose toTable gives `tables`
WriteTextTo ==
    /\ err = "none"
    /\ Len(hooks) < MaxWrites
    /\ \E name \in WrittenNames, fmt \in {"auto", "yaml", "ecsv"}, tables \in TableLists :
          \E r \in writeTextOutcomes(fs, name, fmt, tables) :
              /\ filename' = name
              /\ format' = fmt
              /\ tableList' = tables
              /\ err' = r.exc
              /\ res' = r.used
              /\ fs' = r.fs
              /\ hooks' = hooks \o r.hooks
    /\ last' = "writeText"
    /\ UNCHANGED <<c, d, lists, calls, arg, caller>>

\* res = calib.writeFits(name), for a calibration whose toTable gives `tables`
WriteFitsTo ==
    /\ err = "none"
    /\ Len(hooks) < MaxWrites
    /\ \E name \in WrittenNames, tables \in TableLists :
          LET r == writeFits(fs, name, tables)
          IN  /\ filename' = name
              /\ tableList' = tables
              /\ err' = r.exc
              /\ res' = r.used
              /\ fs' = r.fs
              /\ hooks' = hooks \o r.hooks
    /\ format' = "fits"
    /\ last' = "writeFits"
    /\ UNCHANGED <<c, d, lists, calls, arg, caller>>

NextFiles ==
    \/ WriteTextTo
    \/ WriteFitsTo

SpecFiles == InitFiles /\ [][NextFiles]_vars

---------------------------------------------------------------------------
(* Properties. *)

\* The object with the creation-timestamp keys taken out of its metadata.
StripDates(o) ==
    [o EXCEPT !._metadata = [k \in DOMAIN o._metadata \ DateKeys |-> o._metadata[k]]]

\* The union of the keys of the identifiers of a sequence.
KeysOf(dataIdList) == UNION {DOMAIN dataIdList[i] : i \in DOMAIN dataIdList}

\* C1: after d = IsrProvenance.fromDict(c.toDict()), d == c holds once the
\* creation-timestamp keys are left out of the metadata.
C1_DictRoundTripEqual ==
    (last = "fromDict" /\ err = "none")
        => PyEq(StripDates(d), StripDates(c), lists) = "True"

\* C2: after d = IsrProvenance.fromTable(c.toTable()), for a c whose stored
\* identifiers all have the same key set, d == c holds once the
\* creation-timestamp keys are left out of the metadata.
C2_TableRoundTripEqual ==
    (last = "fromTable" /\ err = "none")
        => PyEq(StripDates(d), StripDates(c), lists) = "True"

\* C3: after any sequence of fromDataIds calls on a fresh provenance,
\* dimensions is exactly the union of the keys of the stored identifiers, and
\* it is determined by the bag of the calls made, whatever their order.
C3_DimensionConsistency ==
    /\ c.dimensions = KeysOf(lists[c.dataIdList])
    /\ c.dimensions = UNION {KeysOf(dataIdList) : dataIdList \in BagToSet(calls)}

\* Two different calls were made, one of them with a repeated identifier or
\* an empty one, and two dimensions were collected.
C3_Witness ==
    /\ BagCardinality(calls) = 2
    /\ Cardinality(BagToSet(calls)) = 2
    /\ \E dataIdList \in BagToSet(calls) : NoArgs \in Range(dataIdList)
    /\ c.dimensions = {"exposure", "detector"}

\* Every attribute of a's required-attribute set has the same value in b.
SameAttributes(a, b) == \A attr \in a.requiredAttributes : AttrEq(a, b, attr, lists)

\* C4: == answers False for two objects of different classes, a subclass
\* instance and a value that is no calibration included, in either operand
\* order; for two objects of one class it answers True exactly when every
\* required attribute is equal.
C4_EqVariantExact ==
    last \in {"c == d", "d == c"}
        => res = IF c.cls = d.cls /\ SameAttributes(c, d) THEN "True" ELSE "False"

\* An IsrProvenance was compared with an instance of a subclass holding the
\* same value in every attribute.
C4_Witness ==
    /\ last = "c == d"
    /\ c.cls = "IsrProvenance"
    /\ d.cls = "SubProvenance"
    /\ SameAttributes(c, d)
    /\ c._detectorId = "#5"
    /\ res = "False"

\* The values found for a list of keys, at top level or under "metadata".
ValuesFound(dictionary, needles) ==
    {dictionary[k] : k \in Range(needles) \cap (DOMAIN dictionary \ {"metadata"})}
        \cup (IF "metadata" \in DOMAIN dictionary
              THEN {dictionary.metadata[k] : k \in Range(needles) \cap DOMAIN dictionary.metadata}
              ELSE {})

\* The dictionary declares no obstype, or the obstype of the variant.
ObstypeAgrees(o, dictionary) ==
    "metadata" \in DOMAIN dictionary
        => /\ "OBSTYPE" \in DOMAIN dictionary.metadata
           /\ dictionary.metadata.OBSTYPE = OBSTYPE(o.cls)

\* The dictionary declares an obstype other than the variant's.
ObstypeDiffers(o, dictionary) ==
    /\ "metadata" \in DOMAIN dictionary
    /\ "OBSTYPE" \in DOMAIN dictionary.metadata
    /\ dictionary.metadata.OBSTYPE # OBSTYPE(o.cls)

\* Some identity field has two different values among its accepted keys.
Ambiguous(dictionary) ==
    \E i \in DOMAIN InfoFields : Cardinality(ValuesFound(dictionary, InfoFields[i][2])) > 1

\* C5: given a dictionary with at most one value per identity field, at top
\* level or under "metadata", calibInfoFromDict returns and sets each field to
\* the value found, and to None when there is none.
C5_InfoRecovered ==
    (last = "calibInfoFromDict" /\ ObstypeAgrees(c, arg) /\ ~Ambiguous(arg))
        => /\ err = "none"
           /\ \A i \in DOMAIN InfoFields :
                 LET found == ValuesFound(arg, InfoFields[i][2])
                 IN  \/ found = {c[InfoFields[i][1]]}
                     \/ found = {} /\ c[InfoFields[i][1]] \in {NoneV, c._detectorSerial}

\* C6: calibInfoFromDict raises ValueError exactly when two accepted keys of
\* one identity field are present with different values.
C6_AmbiguityError ==
    (last = "calibInfoFromDict" /\ ObstypeAgrees(c, arg))
        => (err = "ValueError" <=> Ambiguous(arg))

\* C7: given a dictionary whose metadata declares another obstype,
\* calibInfoFromDict raises RuntimeError and changes no identity field.
C7_ObstypeMismatchError ==
    [][(CalibInfoFromDict /\ ObstypeDiffers(c, arg)) => (err' = "RuntimeError" /\ c' = c)]_vars

\* C8: readFits of the file writeFits wrote hands fromTable every table
\* toTable produced, in order, for any number N >= 1 of tables.
C8_FitsRoundTrip ==
    (last = "readFits" /\ Len(tableList) >= 1)
        => /\ err = "none"
           /\ hooks[Len(hooks)] = Hook("fromTable", tableList)

\* writeText's request is for the structured-text format: named so, or
\* "auto" with a file name ending in .yaml in any letter case.
WantsYaml == format = "yaml" \/ (format = "auto" /\ EndsWith(LowerName(filename), <<".", "yaml">>))

\* writeText's request is for the tabular format.
WantsEcsv ==
    /\ ~WantsYaml
    /\ format = "ecsv" \/ (format = "auto" /\ EndsWith(LowerName(filename), <<".", "ecsv">>))

\* Exactly one file exists, of the given kind and content.
OneFile(kind, data) ==
    /\ Cardinality(DOMAIN fs) = 1
    /\ \A path \in DOMAIN fs : fs[path] = [kind |-> kind, data |-> data]

\* C9 as amended: the extension is matched in any letter case; a structured-
\* text request writes a file from toDict; a tabular request writes a file
\* from toTable when toTable gives one table and fails with RuntimeError,
\* writing nothing, when it gives more; any other request fails with
\* RuntimeError, writes nothing and calls neither toDict nor toTable.
C9_FormatDispatch ==
    last = "writeText"
        => /\ WantsYaml
                => /\ err = "none"
                   /\ OneFile("yaml", TheDict)
                   /\ hooks = <<Hook("toDict", <<>>)>>
           /\ (WantsEcsv /\ Len(tableList) = 1)
                => /\ err = "none"
                   /\ OneFile("ecsv", tableList)
                   /\ hooks = <<Hook("toTable", <<>>)>>
           /\ (WantsEcsv /\ Len(tableList) > 1)
                => /\ err = "RuntimeError"
                   /\ fs = NoFiles
           /\ (~WantsYaml /\ ~WantsEcsv)
                => /\ err = "RuntimeError"
                   /\ fs = NoFiles
                   /\ hooks = <<>>

\* writeText was asked for "auto" on a name ending in .YAML and wrote a file.
C9_Witness ==
    /\ last = "writeText"
    /\ format = "auto"
    /\ EndsWith(filename, <<".", "YAML">>)
    /\ err = "none"
    /\ OneFile("yaml", TheDict)

\* C9 as claimed: with "auto", a name ending in .yaml gives a structured-text
\* file, one ending in .ecsv a tabular file, and any other name fails, writes
\* nothing and calls no hook; "yaml" and "ecsv" select their format whatever
\* the name, and any other format fails.
C9_FormatDispatchAsClaimed ==
    last = "writeText"
        => LET yaml == format = "yaml" \/ (format = "auto" /\ EndsWith(filename, <<".", "yaml">>))
               ecsv == format = "ecsv" \/ (format = "auto" /\ EndsWith(filename, <<".", "ecsv">>))
           IN  /\ yaml => (err = "none" /\ OneFile("yaml", TheDict))
               /\ (ecsv /\ ~yaml) => (err = "none" /\ OneFile("ecsv", tableList))
               /\ (~yaml /\ ~ecsv) => (err = "RuntimeError" /\ fs = NoFiles /\ hooks = <<>>)

\* The base name of `root` (what follows its last "/") holds a word.
HasStem(root) ==
    \E i \in DOMAIN root :
        /\ root[i] \notin {".", "/"}
        /\ \A j \in (i + 1)..Len(root) : root[j] # "/"

\* `ext` is an extension after `root`: a "." and then words only.
IsExtension(root, ext) ==
    /\ HasStem(root)
    /\ ext # <<>>
    /\ ext[1] = "."
    /\ \A i \in 2..Len(ext) : ext[i] \notin {".", "/"}

\* The name cut in two at position k.
Cut(name, k) == [root |-> SubSeq(name, 1, k), ext |-> SubSeq(name, k + 1, Len(name))]

\* `used` is `name` with its extension, if it has one, replaced by .kind.
ExtensionReplaced(name, used, kind) ==
    IF \E k \in 0..Len(name) : IsExtension(Cut(name, k).root, Cut(name, k).ext)
    THEN \E k \in 0..Len(name) :
            /\ IsExtension(Cut(name, k).root, Cut(name, k).ext)
            /\ used = Cut(name, k).root \o <<".", kind>>
    ELSE used = name \o <<".", kind>>

\* C10: when writeText returns, the name returned is the one file written;
\* it is the requested name with its extension replaced by .yaml for a
\* structured-text file and .ecsv for a tabular one; and readText of that
\* name reads the format written.
C10_ReturnedPath ==
    /\ (last = "writeText" /\ err = "none")
          => /\ DOMAIN fs = {res}
             /\ fs[res].kind \in {"yaml", "ecsv"}
             /\ ExtensionReplaced(filename, res, fs[res].kind)
             /\ readFormat(res) = fs[res].kind
    /\ last = "readText"
          => /\ err = "none"
             /\ hooks[Len(hooks)].name = (IF fs[res].kind = "yaml" THEN "fromDict" ELSE "fromTable")
             /\ hooks[Len(hooks)].data = fs[res].data

\* A tabular file was forced onto a name with another extension and read back.
C10_Witness ==
    /\ last = "readText"
    /\ format = "ecsv"
    /\ filename = <<"cal", ".", "yaml">>
    /\ res = <<"cal", ".", "ecsv">>
    /\ hooks[Len(hooks)] = Hook("fromTable", tableList)

\* The items joined with single spaces.
RECURSIVE SpaceJoined(_)
SpaceJoined(items) ==
    IF items = <<>> THEN ""
    ELSE IF Len(items) = 1 THEN items[1]
    ELSE items[1] \o " " \o SpaceJoined(Tail(items))

\* The key=value items of the identity fields of o that are set, in the order
\* instrument, raftName, detectorName, detector, filter.
CalibIdItems(o) ==
    LET item(key, v) == IF Falsy(v) THEN <<>> ELSE <<key \o "=" \o v>>
    IN  item("instrument", o._instrument) \o item("raftName", o._raftName)
          \o item("detectorName", o._detectorName) \o item("detector", o._detectorId)
          \o item("filter", o._filter)

\* C11: updateMetadata with setCalibId=True returns, sets the calib-id to the
\* space-joined key=value items of the identity fields that are set, and
\* writes it under the CALIB_ID key.
C11_CalibIdJoined ==
    (last = "updateMetadata" /\ arg.setCalibId /\ Len(arg.detector.parts) <= 2)
        => /\ err = "none"
           /\ c._calibId = SpaceJoined(CalibIdItems(c))
           /\ c._metadata["CALIB_ID"] = OrNone(c._calibId)

\* The metadata value that stands for an identity field: the empty marker
\* None for a field that is unset (None or the empty string), else the field.
Marked(v) == IF v \in {NoneV, ""} THEN NoneV ELSE v

\* The metadata m holds, under the key, the value.
Holds(m, key, v) == key \in DOMAIN m /\ m[key] = v

\* C12: after every updateMetadata call that returns, the three type keys of
\* the metadata equal the variant's constants and every identity key equals
\* the calibration's identity field, None standing for an unset field.
C12_EnvelopeSynchronized ==
    (last = "updateMetadata" /\ err = "none")
        => LET m == c._metadata
           IN  /\ Holds(m, "OBSTYPE", OBSTYPE(c.cls))
               /\ Holds(m, OBSTYPE(c.cls) \o "_SCHEMA", SCHEMA(c.cls))
               /\ Holds(m, OBSTYPE(c.cls) \o "_VERSION", VERSION(c.cls))
               /\ Holds(m, "INSTRUME", Marked(c._instrument))
               /\ Holds(m, "RAFTNAME", Marked(c._raftName))
               /\ Holds(m, "SLOTNAME", Marked(c._slotName))
               /\ Holds(m, "DETECTOR", Marked(c._detectorId))
               /\ Holds(m, "DET_NAME", Marked(c._detectorName))
               /\ Holds(m, "DET_SER", Marked(c._detectorSerial))
               /\ Holds(m, "FILTER", Marked(c._filter))
               /\ Holds(m, "CALIB_ID", Marked(c._calibId))

\* The three keys setMetadata forces, for the class.
TypeKeys(cls) == {"OBSTYPE", OBSTYPE(cls) \o "_SCHEMA", OBSTYPE(cls) \o "_VERSION"}

\* C13: setMetadata(m) stores a copy: the caller's m still holds what it held
\* when handed in, after the call and after any later updateMetadata, and
\* the calibration's metadata is m with the three type keys set to the
\* variant's constants.
C13_SetMetadataCopies ==
    /\ caller.metadata = caller.handed
    /\ last = "setMetadata"
          => LET m == c._metadata
             IN  /\ DOMAIN m = DOMAIN caller.handed \cup TypeKeys(c.cls)
                 /\ \A k \in DOMAIN caller.handed \ TypeKeys(c.cls) : m[k] = caller.handed[k]
                 /\ m["OBSTYPE"] = OBSTYPE(c.cls)
                 /\ m[OBSTYPE(c.cls) \o "_SCHEMA"] = SCHEMA(c.cls)
                 /\ m[OBSTYPE(c.cls) \o "_VERSION"] = VERSION(c.cls)

\* A mapping that declares another OBSTYPE was handed in, and updateMetadata
\* has since added keys to the calibration's metadata.
C13_Witness ==
    /\ last = "updateMetadata"
    /\ err = "none"
    /\ caller.handed = [OBSERVER |-> "me", OBSTYPE |-> "BIAS"]
    /\ c._metadata["OBSTYPE"] = "IsrProvenance"
    /\ "OBSERVER" \in DOMAIN c._metadata
    /\ "note" \in DOMAIN c._metadata

\* The identity keys updateMetadata writes.
IdentityKeys ==
    {"INSTRUME", "RAFTNAME", "SLOTNAME", "DETECTOR", "DET_NAME", "DET_SER", "FILTER", "CALIB_ID"}

\* The keys an updateMetadata call with the keywords kwargs may give a new value.
MayChange(cls, kwargs) ==
    TypeKeys(cls) \cup IdentityKeys \cup DateKeys \cup {"calibType"} \cup DOMAIN kwargs

\* C14 (a step that ends with last = "updateMetadata" is an updateMetadata
\* call, whose keywords are arg'.kwargs): updateMetadata removes no metadata key, and a key that is neither a
\* reserved key, a timestamp key, calibType nor one of the caller's extra
\* fields keeps its value.
C14_KeysKept ==
    [][(last' = "updateMetadata")
          => \A k \in DOMAIN c._metadata :
                /\ k \in DOMAIN c'._metadata
                /\ k \notin MayChange(c.cls, arg'.kwargs) => c'._metadata[k] = c._metadata[k]]_vars

\* A later updateMetadata call without extra fields has returned on a
\* calibration whose metadata held the caller's OBSERVER and an earlier note.
C14_Witness ==
    /\ last = "updateMetadata"
    /\ err = "none"
    /\ arg.kwargs = NoArgs
    /\ arg.setDate
    /\ Holds(c._metadata, "OBSERVER", "me")
    /\ Holds(c._metadata, "note", "x")

\* C15: constructing a provenance from an instrument descriptor and a
\* detector descriptor succeeds, and the identity fields and the metadata
\* keys INSTRUME, DET_NAME, DET_SER, DETECTOR hold the descriptors' values.
C15_BuiltFromDescriptors ==
    (last = "init" /\ arg.camera.given /\ arg.detector.given)
        => /\ err = "none"
           /\ c._instrument = arg.camera.name
           /\ c._detectorName = getName(arg.detector)
           /\ c._detectorSerial = arg.detector.serial
           /\ c._detectorId = arg.detector.id
           /\ Holds(c._metadata, "INSTRUME", arg.camera.name)
           /\ Holds(c._metadata, "DET_NAME", getName(arg.detector))
           /\ Holds(c._metadata, "DET_SER", arg.detector.serial)
           /\ Holds(c._metadata, "DETECTOR", arg.detector.id)

\* C18: updateMetadata given a detector whose name holds the separator "_"
\* returns and sets the raft name to the part before the separator and the
\* slot name to the part after it, however many separators there are; given
\* a detector whose name holds none it returns, and the raft and slot names
\* are unset or are those of the detector name now stored.  (Calls with
\* setCalibId are left to C11.)
C18_RaftSlotFromName ==
    (last = "updateMetadata" /\ arg.detector.given /\ ~arg.setCalibId)
        => /\ err = "none"
           /\ c._detectorName = getName(arg.detector)
           /\ IF Len(arg.detector.parts) > 1
              THEN /\ c._raftName = Head(arg.detector.parts)
                   /\ c._slotName = Join(Tail(arg.detector.parts))
              ELSE \/ c._raftName = NoneV /\ c._slotName = NoneV
                   \/ Join(<<c._raftName, c._slotName>>) = c._detectorName

\* The dimensions of the provenance are the keys of its stored identifiers.
DimensionsMatch(o, heap) == o.dimensions = KeysOf(heap[o.dataIdList])

\* C16: in every state, however the provenance was produced (fromDict on a
\* dictionary with the required keys, fromTable on a table, with or without
\* rows, fromDataIds), dimensions is the union of the keys of the
\* identifiers of dataIdList; and no step removes an element of dimensions.
C16_ProvenanceInvariant ==
    /\ [](d # NoObj => DimensionsMatch(d, lists))
    /\ [][(d # NoObj /\ d' # NoObj) => d.dimensions \subseteq d'.dimensions]_vars

\* C17: a read of data whose metadata declares an OBSTYPE other than the
\* variant's fails with RuntimeError and returns no calibration; no read
\* returns a calibration whose metadata OBSTYPE is not the variant's.
C17_ObstypeChecked ==
    /\ d # NoObj => d._metadata["OBSTYPE"] = OBSTYPE(d.cls)
    /\ (/\ last = "fromDict"
        /\ "OBSTYPE" \in DOMAIN arg.dictionary.metadata
        /\ arg.dictionary.metadata["OBSTYPE"] # OBSTYPE("IsrProvenance"))
          => (err = "RuntimeError" /\ d = NoObj)
    /\ (/\ last = "fromTable"
        /\ "OBSTYPE" \in DOMAIN arg.tableList[1].meta
        /\ arg.tableList[1].meta["OBSTYPE"] # OBSTYPE("IsrProvenance"))
          => (err = "RuntimeError" /\ d = NoObj)

\* The object and the identifiers it holds are the same before and after the step.
Untouched(o, oAfter) == oAfter = o /\ lists'[o.dataIdList] = lists[o.dataIdList]

\* C20: once d = IsrProvenance.fromDict(c.toDict()), a step that changes d
\* (fromDataIds, updateMetadata, setMetadata) leaves c, its dataIdList
\* included, as it was, and a step that changes c leaves d as it was; and the
\* caller's assignment into the dictionary toDict returned leaves c as it was.
C20_InstancesIndependent ==
    [][/\ last' \in {"d.fromDataIds", "d.updateMetadata", "d.setMetadata"} => Untouched(c, c')
       /\ last' \in {"c.fromDataIds", "c.updateMetadata"} => Untouched(d, d')
       /\ last' = "outDict.metadata.set" => Untouched(c, c')]_vars

\* What the file system holds at the path; no file is the kind "absent".
ContentAt(files, path) ==
    IF path \in DOMAIN files THEN files[path] ELSE [kind |-> "absent", data |-> <<>>]

\* The step leaves every path but the given one as it was.
OnlyChanges(path) ==
    \A q \in DOMAIN fs \cup DOMAIN fs' : q # path => ContentAt(fs', q) = ContentAt(fs, q)

\* The content a write step's own arguments determine.
WrittenContent ==
    IF last' = "writeFits" THEN [kind |-> "fits", data |-> <<"primary">> \o tableList']
    ELSE IF textFormat(filename', format') = "yaml" THEN [kind |-> "yaml", data |-> TheDict]
    ELSE [kind |-> "ecsv", data |-> tableList']

\* C19 as amended: a write changes no path other than the one it returns,
\* which for writeText is the requested name with the extension of the
\* format; a write that returns leaves at that path exactly the content its
\* own arguments determine, whatever the path held before; a write that
\* raises changes no path.
C19_WritesIndependent ==
    [][last' \in {"writeText", "writeFits"}
          => IF err' = "none"
             THEN /\ OnlyChanges(res')
                  /\ ContentAt(fs', res') = WrittenContent
             ELSE fs' = fs]_vars

\* A file written as structured text was then replaced by writeFits on the
\* same path.
C19_Witness ==
    /\ last = "writeFits"
    /\ err = "none"
    /\ Len(hooks) = 2
    /\ hooks[1].name = "toDict"
    /\ DOMAIN fs = {<<"cal", ".", "yaml">>}
    /\ fs[<<"cal", ".", "yaml">>].kind = "fits"

\* C19 as claimed: a write changes no path other than the requested
\* filename, and a write that returns leaves at the requested filename the
\* content its own arguments determine.
C19_WritesIndependentAsClaimed ==
    [][last' \in {"writeText", "writeFits"}
          => /\ OnlyChanges(filename')
             /\ err' = "none" => ContentAt(fs', filename') = WrittenContent]_vars

====
